---- MODULE Spec2Model ----
(***************************************************************************)
(* Habit tracker: the Habit entity of src/habit/js/habit.js, the storage    *)
(* module src/habit/js/storage.js, the notification helpers of             *)
(* src/habit/js/notifications.js and the controller's handlers.            *)
(*                                                                         *)
(* Representation.                                                         *)
(*   - A calendar-day string "YYYY-MM-DD" is the number of that day        *)
(*     counted from 1970-01-01 (day 0, a Thursday).  The strings all have  *)
(*     four-digit years, so the code's lexicographic string order is the   *)
(*     numeric order of the day numbers.                                   *)
(*   - A JavaScript Date is an instant: the number of hours since          *)
(*     1970-01-01T00:00Z.  The local-time getters (getDate, getDay, ...)   *)
(*     read the instant shifted by the zone offset tz (hours east of UTC,  *)
(*     a fixed offset, no daylight-saving change); new Date("YYYY-MM-DD")  *)
(*     and toISOString() work in UTC.                                      *)
(*   - null is the record Null; a present optional value x is Val(x).      *)
(***************************************************************************)
EXTENDS Integers, Sequences, FiniteSets, TLC

VARIABLES
    habit,      \* the Habit object: a record of its eight fields
    now,        \* the system clock: the instant new Date() returns
    tz,         \* the zone offset of the host, hours east of UTC
    lastOp,     \* the last mutating call made on the habit
    prevOp,     \* the mutating call before it
    ret,        \* the result of the last query, made after lastOp
    habits,     \* the controller's collection: the array of Habit objects
    store,      \* localStorage: the item stored under STORAGE_KEY
    permission, \* Notification.permission
    notificationCheckInterval,  \* the controller's interval id, or null
    timers,     \* the page's live intervals: the id of each and the hour it last ran in
    reminders   \* the calls of showHabitReminder so far: the habit's id and the local day

\* the state of the notification system
notifications == <<permission, notificationCheckInterval, timers, reminders>>

vars == <<habit, now, tz, lastOp, prevOp, ret, habits, store, notifications>>

---------------------------------------------------------------------------
(* Bounds of the model *)

\* the first calendar day of the model's window: 2024-01-01, a Monday
FirstDay == 19723

\* the days the completion-tracking specification marks: FirstDay .. FirstDay + MaxDay
MaxDay == 2

\* the days the streak specification draws completions from
MaxStreakDay == 10

\* the days the statistics specification draws completions from
MaxStatsDay == 7

\* the long runs of the streak specification end at most this many days ago
MaxRunEnd == 2

\* ... and start between MaxDaysChecked - RunSlack and MaxDaysChecked + RunSlack days ago
RunSlack == 3

\* the days the new-habit specification constructs the habit on
MaxNewDay == 6

\* the days the schedule specification asks about: FirstDay .. FirstDay + MaxActiveDay
MaxActiveDay == 6

\* the most records in an imported text and in the item the model starts from;
\* the stored item grows to one record more
MaxImport == 2

\* the add form is submitted while the collection holds fewer habits than this
MaxHabits == 2

\* the hours the clock of the notification specification advances
MaxAdvance == 1

\* the notification specification shows at most this many reminders
MaxReminders == 2

---------------------------------------------------------------------------
(* Program constants *)

\* 1000 * 60 * 60 * 24 milliseconds, in the model's unit (hours)
HoursPerDay == 24

\* while (daysChecked < 365)
MaxDaysChecked == 365

---------------------------------------------------------------------------
(* Values *)

Null == [null |-> TRUE, v |-> <<>>]

Val(x) == [null |-> FALSE, v |-> x]

\* a "YYYY-MM-DD" string
Str(d) == [kind |-> "string", v |-> d, time |-> FALSE]

\* a "YYYY-MM-DDTHH:MM:SS.sssZ" string
IsoStr(d) == [kind |-> "string", v |-> d, time |-> TRUE]

\* a Date object
DateObj(t) == [kind |-> "Date", v |-> t, time |-> FALSE]

\* a weekday number 0..6
Num(n) == [kind |-> "number", v |-> n, time |-> FALSE]

---------------------------------------------------------------------------
(* Date: the JavaScript built-ins the code calls *)

\* new Date("YYYY-MM-DD"): a date-only string is parsed as UTC midnight
ParseDate(d) == d * HoursPerDay

\* new Date(year, month, day): local midnight of that calendar day
LocalMidnight(d) == d * HoursPerDay - tz

\* getFullYear() / getMonth() / getDate(): the local calendar day of an instant
LocalDay(t) == (t + tz) \div HoursPerDay

\* toISOString().split('T')[0]: the UTC calendar day of an instant
UtcDay(t) == t \div HoursPerDay

\* getDay(): the local weekday of an instant, 0 = Sunday
GetDay(t) == (LocalDay(t) + 4) % 7

\* getHours(): the local hour of an instant
GetHours(t) == (t + tz) % HoursPerDay

\* getMinutes(): the clock of the model stands at a whole hour
GetMinutes(t) == 0

\* setHours(0, 0, 0, 0): local midnight of the instant's local day
SetHoursZero(t) == LocalMidnight(LocalDay(t))

\* setDate(getDate() + n): the same local time n days later
AddDays(t, n) == t + n * HoursPerDay

---------------------------------------------------------------------------
(* Array: the JavaScript built-ins the code calls *)

\* Array.prototype.includes
Includes(s, x) == \E i \in 1..Len(s) : s[i] = x

\* Array.prototype.indexOf: the first index (from 1) holding x, 0 when none does
IndexOf(s, x) ==
    IF Includes(s, x) THEN CHOOSE i \in 1..Len(s) : s[i] = x /\ \A j \in 1..(i - 1) : s[j] # x
    ELSE 0

\* Array.prototype.splice(index, 1)
Splice(s, i) == [j \in 1..(Len(s) - 1) |-> IF j < i THEN s[j] ELSE s[j + 1]]

RECURSIVE InsertSorted(_, _)
InsertSorted(s, x) ==
    IF s = <<>> THEN <<x>>
    ELSE IF x < Head(s) THEN <<x>> \o s
    ELSE <<Head(s)>> \o InsertSorted(Tail(s), x)

\* Array.prototype.sort() with the default order, on day strings
RECURSIVE Sort(_)
Sort(s) == IF s = <<>> THEN <<>> ELSE InsertSorted(Sort(Tail(s)), Head(s))

---------------------------------------------------------------------------
(* Habit *)

\* constructor(name, createdDate, completions, notificationTime, daysOfWeek, notes, tags)
NewHabit(id, name, createdDate, completions, notificationTime, daysOfWeek, notes, tags) ==
    [id               |-> id,
     name             |-> name,
     createdDate      |-> IF createdDate.null THEN UtcDay(now) ELSE createdDate.v,
     completions      |-> IF completions.null THEN <<>> ELSE completions.v,
     notificationTime |-> notificationTime,
     daysOfWeek       |-> daysOfWeek,
     notes            |-> notes,
     tags             |-> IF tags.null THEN <<>> ELSE tags.v]

\* _normalizeDate(date)
normalizeDate(date) ==
    IF date.kind = "string" THEN date.v
    ELSE LocalDay(date.v)

\* markCompleted(date), without the re-sort
markCompletedNoSort(h, date) ==
    LET dateStr == normalizeDate(date)
    IN  IF ~Includes(h.completions, dateStr)
        THEN [h EXCEPT !.completions = Append(h.completions, dateStr)]
        ELSE h

\* markCompleted(date), without the membership test
markCompletedNoTest(h, date) ==
    LET dateStr == normalizeDate(date)
    IN  [h EXCEPT !.completions = Sort(Append(h.completions, dateStr))]

\* markCompleted(date)
markCompleted(h, date) ==
    LET dateStr == normalizeDate(date)
    IN  IF ~Includes(h.completions, dateStr)
        THEN [h EXCEPT !.completions = Sort(Append(h.completions, dateStr))]
        ELSE h

\* markIncomplete(date), comparing the raw argument instead of the normalized day
markIncompleteRaw(h, date) ==
    LET index == IndexOf(h.completions, date.v)
    IN  IF index > 0
        THEN [h EXCEPT !.completions = Splice(h.completions, index)]
        ELSE h

\* markIncomplete(date), splicing without the index > -1 test: splice(-1, 1)
\* removes the last element
markIncompleteNoTest(h, date) ==
    LET dateStr == normalizeDate(date)
        index   == IndexOf(h.completions, dateStr)
    IN  IF index > 0
        THEN [h EXCEPT !.completions = Splice(h.completions, index)]
        ELSE IF Len(h.completions) > 0
             THEN [h EXCEPT !.completions = Splice(h.completions, Len(h.completions))]
             ELSE h

\* markIncomplete(date)
markIncomplete(h, date) ==
    LET dateStr == normalizeDate(date)
        index   == IndexOf(h.completions, dateStr)
    IN  IF index > 0
        THEN [h EXCEPT !.completions = Splice(h.completions, index)]
        ELSE h

\* isCompletedOn(date)
isCompletedOn(h, date) ==
    LET dateStr == normalizeDate(date)
    IN  Includes(h.completions, dateStr)

\* isActiveOnDay(dayOrDate), reading the weekday of the day before
isActiveOnDayShifted(h, dayOrDate) ==
    IF h.daysOfWeek.null \/ Len(h.daysOfWeek.v) = 0 THEN TRUE
    ELSE LET dayOfWeek ==
                 IF dayOrDate.kind = "number" THEN dayOrDate.v
                 ELSE IF dayOrDate.kind = "Date" THEN GetDay(AddDays(dayOrDate.v, -1))
                 ELSE GetDay(AddDays(LocalMidnight(dayOrDate.v), -1))
         IN  Includes(h.daysOfWeek.v, dayOfWeek)

\* isActiveOnDay(dayOrDate), parsing a date string with new Date(string)
isActiveOnDayUtcParse(h, dayOrDate) ==
    IF h.daysOfWeek.null \/ Len(h.daysOfWeek.v) = 0 THEN TRUE
    ELSE LET dayOfWeek ==
                 IF dayOrDate.kind = "number" THEN dayOrDate.v
                 ELSE IF dayOrDate.kind = "Date" THEN GetDay(dayOrDate.v)
                 ELSE GetDay(ParseDate(dayOrDate.v))
         IN  Includes(h.daysOfWeek.v, dayOfWeek)

\* isActiveOnDay(dayOrDate)
isActiveOnDay(h, dayOrDate) ==
    IF h.daysOfWeek.null \/ Len(h.daysOfWeek.v) = 0 THEN TRUE
    ELSE LET dayOfWeek ==
                 IF dayOrDate.kind = "number" THEN dayOrDate.v
                 ELSE IF dayOrDate.kind = "Date" THEN GetDay(dayOrDate.v)
                 ELSE GetDay(LocalMidnight(dayOrDate.v))
         IN  Includes(h.daysOfWeek.v, dayOfWeek)

\* the locals of calculateStreak; done: the loop has ended, broke: it ended at the
\* break, on a day it examined and did not step over
WalkState(currentDate, streak, checkingToday, daysChecked) ==
    [currentDate |-> currentDate, streak |-> streak, checkingToday |-> checkingToday,
     daysChecked |-> daysChecked, done |-> FALSE, broke |-> FALSE]

\* one turn of the while loop of calculateStreak: its test, then its body
StreakStep(h, w) ==
    IF ~(w.daysChecked < MaxDaysChecked) THEN [w EXCEPT !.done = TRUE]
    ELSE LET dateStr == normalizeDate(DateObj(w.currentDate))
             stepped == [w EXCEPT !.currentDate = AddDays(w.currentDate, -1),
                                  !.daysChecked = w.daysChecked + 1]
         IN  IF isActiveOnDay(h, DateObj(w.currentDate))
             THEN IF isCompletedOn(h, Str(dateStr))
                  THEN [stepped EXCEPT !.streak = w.streak + 1, !.checkingToday = FALSE]
                  ELSE IF w.checkingToday
                       THEN [stepped EXCEPT !.checkingToday = FALSE]
                       ELSE [w EXCEPT !.done = TRUE, !.broke = TRUE]
             ELSE stepped

\* the while loop of calculateStreak: up to n turns from w, none once it has ended
RECURSIVE StreakLoop(_, _, _)
StreakLoop(h, w, n) ==
    IF w.done \/ n = 0 THEN w
    ELSE IF n = 1 THEN StreakStep(h, w)
    ELSE StreakLoop(h, StreakLoop(h, w, n \div 2), n - (n \div 2))

\* the locals when calculateStreak returns; the loop ends within MaxDaysChecked + 1
\* turns, and 2 * MaxDaysChecked are allowed for
StreakWalk(h, currentDate, streak, checkingToday, daysChecked) ==
    StreakLoop(h, WalkState(currentDate, streak, checkingToday, daysChecked),
               2 * MaxDaysChecked)

\* calculateStreak, with the loop running one day too far
calculateStreakWalkOff(h) ==
    IF Len(h.completions) = 0 THEN WalkState(SetHoursZero(now), 0, TRUE, 0)
    ELSE StreakWalk(h, SetHoursZero(now), 0, TRUE, -1)

\* calculateStreak, with no leniency for today
calculateStreakWalkStrict(h) ==
    IF Len(h.completions) = 0 THEN WalkState(SetHoursZero(now), 0, TRUE, 0)
    ELSE StreakWalk(h, SetHoursZero(now), 0, FALSE, 0)

\* the locals when calculateStreak() returns
calculateStreakWalk(h) ==
    IF Len(h.completions) = 0 THEN WalkState(SetHoursZero(now), 0, TRUE, 0)
    ELSE StreakWalk(h, SetHoursZero(now), 0, TRUE, 0)

\* calculateStreak()
calculateStreak(h) == calculateStreakWalk(h).streak

\* the inner while loop of getStatistics: is a day between the two completions scheduled?
RECURSIVE GapIsBroken(_, _, _)
GapIsBroken(h, checkDate, currDate) ==
    IF ~(checkDate < currDate) THEN FALSE
    ELSE IF isActiveOnDay(h, DateObj(checkDate)) THEN TRUE
    ELSE GapIsBroken(h, AddDays(checkDate, 1), currDate)

\* the for loop of getStatistics, from index i on
RECURSIVE LongestScan(_, _, _, _, _)
LongestScan(h, sortedCompletions, i, longestStreak, tempStreak) ==
    IF i > Len(sortedCompletions) THEN <<longestStreak, tempStreak>>
    ELSE IF i = 1 THEN LongestScan(h, sortedCompletions, i + 1, longestStreak, 1)
    ELSE LET prevDate == ParseDate(sortedCompletions[i - 1])
             currDate == ParseDate(sortedCompletions[i])
             allScheduledDaysCompleted == ~GapIsBroken(h, AddDays(prevDate, 1), currDate)
         IN  IF allScheduledDaysCompleted
             THEN LongestScan(h, sortedCompletions, i + 1, longestStreak, tempStreak + 1)
             ELSE LongestScan(h, sortedCompletions, i + 1,
                              IF longestStreak > tempStreak THEN longestStreak
                              ELSE tempStreak,
                              1)

\* the while loop of getStatistics counting the scheduled days, with checkDate < today
RECURSIVE CountScheduledStrict(_, _, _, _)
CountScheduledStrict(h, checkDate, today, scheduledDaysPassed) ==
    IF ~(checkDate < today) THEN scheduledDaysPassed
    ELSE CountScheduledStrict(h, AddDays(checkDate, 1), today,
                              IF isActiveOnDay(h, DateObj(checkDate))
                              THEN scheduledDaysPassed + 1
                              ELSE scheduledDaysPassed)

\* the while loop of getStatistics counting the scheduled days
RECURSIVE CountScheduled(_, _, _, _)
CountScheduled(h, checkDate, today, scheduledDaysPassed) ==
    IF ~(checkDate <= today) THEN scheduledDaysPassed
    ELSE CountScheduled(h, AddDays(checkDate, 1), today,
                        IF isActiveOnDay(h, DateObj(checkDate))
                        THEN scheduledDaysPassed + 1
                        ELSE scheduledDaysPassed)

\* Math.round(n / d * 100) for d > 0: the nearest integer, a half rounded up
\* (a quotient falls on a half only when 8 divides d, and is then exact in
\* binary floating point for the counts of the model)
RoundPercent(n, d) == (200 * n + d) \div (2 * d)

\* getStatistics(), counting the days since creation without the creation day itself
getStatisticsExclusive(h) ==
    LET totalCompletions == Len(h.completions)
        currentStreak == calculateStreak(h)
        sortedCompletions == Sort(h.completions)
        scan == LongestScan(h, sortedCompletions, 1, 0, 0)
        longestStreak == IF scan[1] > scan[2] THEN scan[1] ELSE scan[2]
        createdDateObj == ParseDate(h.createdDate)
        today == now
        daysSinceCreation == (today - createdDateObj) \div HoursPerDay
        scheduledDaysPassed ==
            IF ~h.daysOfWeek.null /\ Len(h.daysOfWeek.v) > 0
            THEN CountScheduled(h, AddDays(createdDateObj, 1), today, 0)
            ELSE daysSinceCreation
        completionRate ==
            IF scheduledDaysPassed > 0 THEN RoundPercent(totalCompletions, scheduledDaysPassed)
            ELSE 0
    IN  [totalCompletions    |-> totalCompletions,
         currentStreak       |-> currentStreak,
         longestStreak       |-> longestStreak,
         completionRate      |-> completionRate,
         daysSinceCreation   |-> daysSinceCreation,
         scheduledDaysPassed |-> scheduledDaysPassed]

\* getStatistics()
getStatistics(h) ==
    LET totalCompletions == Len(h.completions)
        currentStreak == calculateStreak(h)
        sortedCompletions == Sort(h.completions)
        scan == LongestScan(h, sortedCompletions, 1, 0, 0)
        longestStreak == IF scan[1] > scan[2] THEN scan[1] ELSE scan[2]
        createdDateObj == ParseDate(h.createdDate)
        today == now
        daysSinceCreation == ((today - createdDateObj) \div HoursPerDay) + 1
        scheduledDaysPassed ==
            IF ~h.daysOfWeek.null /\ Len(h.daysOfWeek.v) > 0
            THEN CountScheduled(h, createdDateObj, today, 0)
            ELSE daysSinceCreation
        completionRate ==
            IF scheduledDaysPassed > 0 THEN RoundPercent(totalCompletions, scheduledDaysPassed)
            ELSE 0
    IN  [totalCompletions    |-> totalCompletions,
         currentStreak       |-> currentStreak,
         longestStreak       |-> longestStreak,
         completionRate      |-> completionRate,
         daysSinceCreation   |-> daysSinceCreation,
         scheduledDaysPassed |-> scheduledDaysPassed]

\* the characters 0-9 of a time string
DigitChars == {"0", "1", "2", "3", "4", "5", "6", "7", "8", "9"}

\* _isValidTimeString(time): /^([0-1][0-9]|2[0-3]):([0-5][0-9])$/.test(time),
\* a string being the sequence of its characters
isValidTimeString(time) ==
    /\ Len(time) = 5
    /\ \/ time[1] \in {"0", "1"} /\ time[2] \in DigitChars
       \/ time[1] = "2" /\ time[2] \in {"0", "1", "2", "3"}
    /\ time[3] = ":"
    /\ time[4] \in {"0", "1", "2", "3", "4", "5"}
    /\ time[5] \in DigitChars

\* the outcome of a call that may throw: the object afterwards, and whether it threw
Returned(h) == [habit |-> h, threw |-> FALSE]

Thrown(h) == [habit |-> h, threw |-> TRUE]

\* setNotificationTime(time), accepting any hour from 00 to 29
setNotificationTimeLoose(h, time) ==
    IF time.null \/ time.v = <<>> THEN Returned([h EXCEPT !.notificationTime = Null])
    ELSE IF /\ Len(time.v) = 5
            /\ time.v[1] \in {"0", "1", "2"} /\ time.v[2] \in DigitChars
            /\ time.v[3] = ":"
            /\ time.v[4] \in {"0", "1", "2", "3", "4", "5"}
            /\ time.v[5] \in DigitChars
         THEN Returned([h EXCEPT !.notificationTime = time])
    ELSE Thrown(h)

\* setNotificationTime(time)
setNotificationTime(h, time) ==
    IF time.null \/ time.v = <<>> THEN Returned([h EXCEPT !.notificationTime = Null])
    ELSE IF isValidTimeString(time.v) THEN Returned([h EXCEPT !.notificationTime = time])
    ELSE Thrown(h)

\* a number given as a weekday: the integer n, or a number strictly between n and n + 1
Integer(n) == [isInteger |-> TRUE, n |-> n]

Fraction(n) == [isInteger |-> FALSE, n |-> n]

\* [...new Set(days)]: the elements in the order of their first occurrence
RECURSIVE Unique(_)
Unique(s) ==
    IF s = <<>> THEN <<>>
    ELSE LET front == Unique(SubSeq(s, 1, Len(s) - 1))
         IN  IF Includes(front, s[Len(s)]) THEN front ELSE Append(front, s[Len(s)])

\* setDaysOfWeek(days), without the removal of duplicates
setDaysOfWeekKeepAll(h, days) ==
    IF days.null \/ Len(days.v) = 0 THEN Returned([h EXCEPT !.daysOfWeek = Null])
    ELSE IF \A i \in 1..Len(days.v) :
                days.v[i].isInteger /\ days.v[i].n >= 0 /\ days.v[i].n <= 6
         THEN Returned([h EXCEPT !.daysOfWeek =
                            Val(Sort([i \in 1..Len(days.v) |-> days.v[i].n]))])
    ELSE Thrown(h)

\* setDaysOfWeek(days); the default sort orders the numbers as strings, which for
\* the one-digit numbers 0..6 is their numeric order
setDaysOfWeek(h, days) ==
    IF days.null \/ Len(days.v) = 0 THEN Returned([h EXCEPT !.daysOfWeek = Null])
    ELSE IF \A i \in 1..Len(days.v) :
                days.v[i].isInteger /\ days.v[i].n >= 0 /\ days.v[i].n <= 6
         THEN Returned([h EXCEPT !.daysOfWeek =
                            Val(Sort(Unique([i \in 1..Len(days.v) |-> days.v[i].n])))])
    ELSE Thrown(h)

\* const dayNames
dayNames == <<"Sun", "Mon", "Tue", "Wed", "Thu", "Fri", "Sat">>

\* getDaysOfWeekString(), taking any five days for the weekdays
getDaysOfWeekStringAnyFive(h) ==
    IF h.daysOfWeek.null \/ Len(h.daysOfWeek.v) = 0 THEN <<"Every day">>
    ELSE IF Len(h.daysOfWeek.v) = 7 THEN <<"Every day">>
    ELSE IF Len(h.daysOfWeek.v) = 5 THEN <<"Weekdays">>
    ELSE IF Len(h.daysOfWeek.v) = 2 /\ Includes(h.daysOfWeek.v, 0)
                                    /\ Includes(h.daysOfWeek.v, 6)
         THEN <<"Weekends">>
    ELSE [i \in 1..Len(h.daysOfWeek.v) |->
             IF h.daysOfWeek.v[i] \in 0..6 THEN dayNames[h.daysOfWeek.v[i] + 1] ELSE ""]

\* getDaysOfWeekString(); the returned string is the sequence of the parts that
\* join(', ') puts together (no part holds a comma), a fixed phrase being one part
getDaysOfWeekString(h) ==
    IF h.daysOfWeek.null \/ Len(h.daysOfWeek.v) = 0 THEN <<"Every day">>
    ELSE IF Len(h.daysOfWeek.v) = 7 THEN <<"Every day">>
    ELSE IF Len(h.daysOfWeek.v) = 5
            /\ \A i \in 1..5 : h.daysOfWeek.v[i] >= 1 /\ h.daysOfWeek.v[i] <= 5
         THEN <<"Weekdays">>
    ELSE IF Len(h.daysOfWeek.v) = 2 /\ Includes(h.daysOfWeek.v, 0)
                                    /\ Includes(h.daysOfWeek.v, 6)
         THEN <<"Weekends">>
    ELSE [i \in 1..Len(h.daysOfWeek.v) |->
             IF h.daysOfWeek.v[i] \in 0..6 THEN dayNames[h.daysOfWeek.v[i] + 1] ELSE ""]

\* toJSON(): the plain object; a property that may be missing from a stored
\* object is Null when missing
toJSON(h) ==
    [id               |-> h.id,
     name             |-> h.name,
     createdDate      |-> Val(h.createdDate),
     completions      |-> Val(h.completions),
     notificationTime |-> h.notificationTime,
     daysOfWeek       |-> h.daysOfWeek,
     notes            |-> h.notes,
     tags             |-> Val(h.tags)]

\* the id _generateId() gives the object fromJSON constructs, before it is replaced
GeneratedId == "habit_generated"

\* Habit.fromJSON(obj), leaving the id the constructor generated
fromJSONFreshId(obj) ==
    NewHabit(GeneratedId, obj.name, obj.createdDate, obj.completions,
             obj.notificationTime, obj.daysOfWeek, obj.notes, obj.tags)

\* Habit.fromJSON(obj)
fromJSON(obj) ==
    [NewHabit(GeneratedId, obj.name, obj.createdDate, obj.completions,
              obj.notificationTime, obj.daysOfWeek, obj.notes, obj.tags)
        EXCEPT !.id = obj.id]

---------------------------------------------------------------------------
(* Notifications: src/habit/js/notifications.js *)

\* the characters 0-9 in order
Digits == <<"0", "1", "2", "3", "4", "5", "6", "7", "8", "9">>

\* String.prototype.split(':')
RECURSIVE SplitColon(_)
SplitColon(str) ==
    IF ~Includes(str, ":") THEN <<str>>
    ELSE LET i == IndexOf(str, ":")
         IN  <<SubSeq(str, 1, i - 1)>> \o SplitColon(SubSeq(str, i + 1, Len(str)))

\* the value of a string of decimal digits
RECURSIVE Decimal(_)
Decimal(str) ==
    IF str = <<>> THEN 0
    ELSE 10 * Decimal(SubSeq(str, 1, Len(str) - 1))
             + (CHOOSE d \in 0..9 : Digits[d + 1] = str[Len(str)])

\* Number(str) for a string of digits and other characters without blanks, signs,
\* points or exponents: 0 for the empty string, NaN (Null) unless all are digits
Number(str) ==
    IF \A i \in 1..Len(str) : str[i] \in DigitChars THEN Val(Decimal(str)) ELSE Null

\* a Date: t the instant of its hour, minute the minutes past that hour
DateAt(t, minute) == [t |-> t, minute |-> minute, invalid |-> FALSE]

\* a Date holding NaN
InvalidDate == [t |-> 0, minute |-> 0, invalid |-> TRUE]

\* the while loop of getNextNotificationTime
RECURSIVE SeekActiveDay(_, _, _)
SeekActiveDay(h, notificationTime, daysChecked) ==
    IF ~(daysChecked < 7) THEN notificationTime
    ELSE IF Includes(h.daysOfWeek.v, GetDay(notificationTime)) THEN notificationTime
    ELSE SeekActiveDay(h, AddDays(notificationTime, 1), daysChecked + 1)

\* getNextNotificationTime(habit); the clock stands at a whole hour
getNextNotificationTime(h) ==
    IF h.notificationTime.null \/ h.notificationTime.v = <<>> THEN Null
    ELSE LET parts  == SplitColon(h.notificationTime.v)
             hour   == Number(parts[1])
             minute == IF Len(parts) >= 2 THEN Number(parts[2]) ELSE Null
         IN  IF hour.null \/ minute.null THEN Val(InvalidDate)
             ELSE LET atHour == SetHoursZero(now) + hour.v + (minute.v \div 60)
                      min    == minute.v % 60
                      passed == atHour < now \/ (atHour = now /\ min = 0)
                      next   == IF passed THEN AddDays(atHour, 1) ELSE atHour
                  IN  IF /\ ~h.daysOfWeek.null
                         /\ Len(h.daysOfWeek.v) > 0
                         /\ Len(h.daysOfWeek.v) < 7
                      THEN Val(DateAt(SeekActiveDay(h, next, 0), min))
                      ELSE Val(DateAt(next, min))

\* shouldNotifyForHabit(habit); a part of the time that is not a number is NaN,
\* a missing part undefined, and neither equals the clock's hour or minute
shouldNotifyForHabit(h) ==
    IF h.notificationTime.null \/ h.notificationTime.v = <<>> THEN FALSE
    ELSE LET today == Str(UtcDay(now))
         IN  IF ~isActiveOnDay(h, DateObj(now)) THEN FALSE
             ELSE IF isCompletedOn(h, today) THEN FALSE
             ELSE LET parts         == SplitColon(h.notificationTime.v)
                      notifHour     == Number(parts[1])
                      notifMinute   == IF Len(parts) >= 2 THEN Number(parts[2]) ELSE Null
                      currentHour   == GetHours(now)
                      currentMinute == GetMinutes(now)
                  IN  /\ ~notifHour.null
                      /\ ~notifMinute.null
                      /\ currentHour = notifHour.v
                      /\ currentMinute = notifMinute.v

\* showHabitReminder(habit), as the record of the call: the habit's id and the
\* local day of the call
showHabitReminder(h) == [id |-> h.id, day |-> LocalDay(now)]

\* checkAllHabitsForNotifications(habits): the calls of showHabitReminder it
\* makes, in the order of the array
RECURSIVE checkAllHabitsForNotifications(_, _)
checkAllHabitsForNotifications(hs, perm) ==
    IF perm # "granted" THEN <<>>
    ELSE IF hs = <<>> THEN <<>>
    ELSE (IF shouldNotifyForHabit(Head(hs)) THEN <<showHabitReminder(Head(hs))>> ELSE <<>>)
             \o checkAllHabitsForNotifications(Tail(hs), perm)

\* requestNotificationPermission(), the user answering the browser's prompt when
\* the permission is still 'default'
requestNotificationPermission(perm, answer) ==
    IF perm = "granted" THEN "granted"
    ELSE IF perm = "denied" THEN "denied"
    ELSE answer

---------------------------------------------------------------------------
(* Storage: src/habit/js/storage.js *)

\* a property missing from a parsed object: undefined
Undefined == "undefined"

\* localStorage.getItem(STORAGE_KEY): no item; a text JSON.parse rejects; a JSON
\* value that is not an array; an array with a null among its elements (items:
\* the others); an array of objects
NoItem == [kind |-> "none", items |-> <<>>]

Unparsable == [kind |-> "unparsable", items |-> <<>>]

NotArray == [kind |-> "notArray", items |-> <<>>]

ArrayWithNull(items) == [kind |-> "arrayWithNull", items |-> items]

ArrayOf(items) == [kind |-> "array", items |-> items]

\* what a storage function returns, and the item it leaves in localStorage
Outcome(value, item) == [value |-> value, store |-> item]

\* Array.prototype.findIndex(h => h.id === id): the first index (from 1), 0 when none
FindIndex(hs, id) ==
    IF \E i \in 1..Len(hs) : hs[i].id = id
    THEN CHOOSE i \in 1..Len(hs) : hs[i].id = id /\ \A j \in 1..(i - 1) : hs[j].id # id
    ELSE 0

\* Array.prototype.filter(h => h.id !== id)
RECURSIVE FilterOut(_, _)
FilterOut(hs, id) ==
    IF hs = <<>> THEN <<>>
    ELSE IF Head(hs).id # id THEN <<Head(hs)>> \o FilterOut(Tail(hs), id)
    ELSE FilterOut(Tail(hs), id)

\* saveHabits(habits): the item written, JSON.stringify(habits.map(toJSON))
saveHabits(hs) == ArrayOf([i \in 1..Len(hs) |-> toJSON(hs[i])])

\* loadHabits(): [] when there is no item, when JSON.parse throws, when the value
\* is not an array, and when fromJSON throws on a null element
loadHabits(item) ==
    IF item.kind = "array"
    THEN [i \in 1..Len(item.items) |-> fromJSON(item.items[i])]
    ELSE <<>>

\* saveHabit(habit)
saveHabit(item, h) ==
    LET hs == loadHabits(item)
        existingIndex == FindIndex(hs, h.id)
    IN  IF existingIndex > 0
        THEN Outcome(TRUE, saveHabits([hs EXCEPT ![existingIndex] = h]))
        ELSE Outcome(TRUE, saveHabits(Append(hs, h)))

\* deleteHabit(habitId), saving whether or not a habit was removed
deleteHabitAlwaysSave(item, habitId) ==
    LET hs == loadHabits(item)
        filteredHabits == FilterOut(hs, habitId)
    IN  Outcome(Len(filteredHabits) # Len(hs), saveHabits(filteredHabits))

\* deleteHabit(habitId)
deleteHabit(item, habitId) ==
    LET hs == loadHabits(item)
        filteredHabits == FilterOut(hs, habitId)
    IN  IF Len(filteredHabits) = Len(hs) THEN Outcome(FALSE, item)
        ELSE Outcome(TRUE, saveHabits(filteredHabits))

\* getHabitById(habitId): the habit, or null
getHabitById(item, habitId) ==
    LET hs == loadHabits(item)
        index == FindIndex(hs, habitId)
    IN  IF index > 0 THEN [null |-> FALSE, habit |-> <<hs[index]>>]
        ELSE [null |-> TRUE, habit |-> <<>>]

\* the jsonString given to importData: a text JSON.parse rejects; a JSON value
\* without a habits property; one whose habits is not an array; one whose habits
\* array has a null among its elements; one whose habits is an array of objects
BadText == [kind |-> "unparsable", habits |-> <<>>]

NoHabitsText == [kind |-> "noHabits", habits |-> <<>>]

HabitsNotArrayText == [kind |-> "habitsNotArray", habits |-> <<>>]

HabitsWithNullText(records) == [kind |-> "habitsWithNull", habits |-> records]

HabitsText(records) == [kind |-> "habits", habits |-> records]

\* the for loop of importData, from the k-th imported habit on
RECURSIVE MergeLoop(_, _, _)
MergeLoop(allHabits, importedHabits, k) ==
    IF k > Len(importedHabits) THEN allHabits
    ELSE LET h == importedHabits[k]
             existingIndex == FindIndex(allHabits, h.id)
         IN  IF existingIndex > 0
             THEN MergeLoop([allHabits EXCEPT ![existingIndex] = h], importedHabits, k + 1)
             ELSE MergeLoop(Append(allHabits, h), importedHabits, k + 1)

\* importData(jsonString, merge), appending every imported habit when merging
importDataAppend(item, text, merge) ==
    IF text.kind # "habits" THEN Outcome(FALSE, item)
    ELSE LET importedHabits == [i \in 1..Len(text.habits) |-> fromJSON(text.habits[i])]
         IN  IF merge
             THEN Outcome(TRUE, saveHabits(loadHabits(item) \o importedHabits))
             ELSE Outcome(TRUE, saveHabits(importedHabits))

\* importData(jsonString, merge)
importData(item, text, merge) ==
    IF text.kind # "habits" THEN Outcome(FALSE, item)
    ELSE LET importedHabits == [i \in 1..Len(text.habits) |-> fromJSON(text.habits[i])]
         IN  IF merge
             THEN Outcome(TRUE, saveHabits(MergeLoop(loadHabits(item), importedHabits, 1)))
             ELSE Outcome(TRUE, saveHabits(importedHabits))

---------------------------------------------------------------------------
(* The controller: its collection and its handlers *)

\* the controller's collection and the stored item after a handler that went on to
\* saveHabits(); error: the handler showed an error notification
Handled(hs, item) == [habits |-> hs, store |-> item, error |-> FALSE, saving |-> TRUE]

\* ... after a handler that showed an error notification and returned, or ended in
\* its catch block, before saveHabits()
Rejected(hs, item) == [habits |-> hs, store |-> item, error |-> TRUE, saving |-> FALSE]

\* ... after a handler that returned without an error before saveHabits()
Dismissed(hs, item) == [habits |-> hs, store |-> item, error |-> FALSE, saving |-> FALSE]

\* Storage.saveHabits(habits) when localStorage.setItem throws: it returns false,
\* the item stays as it was, and the handler shows or throws its save error
SaveFailed(after, item) ==
    IF after.saving
    THEN [habits |-> after.habits, store |-> item, error |-> TRUE, saving |-> TRUE]
    ELSE after

\* _generateId(): `habit_${Date.now()}_${random}`, an id that no habit of the
\* collection and no stored object has
GeneratedIds == <<"habit_1", "habit_2", "habit_3">>

generateId(used) ==
    GeneratedIds[CHOOSE i \in 1..Len(GeneratedIds) :
                     /\ GeneratedIds[i] \notin used
                     /\ \A j \in 1..(i - 1) : GeneratedIds[j] \in used]

\* /^\d{2}:\d{2}$/.test(time)
isTwoDigitTime(time) ==
    /\ Len(time) = 5
    /\ time[1] \in DigitChars /\ time[2] \in DigitChars
    /\ time[3] = ":"
    /\ time[4] \in DigitChars /\ time[5] \in DigitChars

\* the array getHabitFormData() makes of the checked boxes: parseInt of each value
CheckedDays(days) ==
    IF days.null THEN Null ELSE Val([i \in 1..Len(days.v) |-> days.v[i].n])

\* handleAddHabitSubmit(e) for the form holding formData; id: the id the
\* constructor generates
handleAddHabitSubmit(hs, item, formData, id) ==
    IF formData.name = "" THEN Rejected(hs, item)
    ELSE IF Len(formData.name) > 100 THEN Rejected(hs, item)
    ELSE IF /\ ~formData.notificationTime.null
            /\ formData.notificationTime.v # <<>>
            /\ ~isTwoDigitTime(formData.notificationTime.v)
         THEN Rejected(hs, item)
    ELSE LET h == NewHabit(id, formData.name, Null, Val(<<>>), formData.notificationTime,
                           CheckedDays(formData.daysOfWeek), formData.notes,
                           Val(formData.tags))
             changed == Append(hs, h)
         IN  Handled(changed, saveHabits(changed))

\* handleHabitComplete(habitId, shouldComplete)
handleHabitComplete(hs, item, habitId, shouldComplete) ==
    LET index == FindIndex(hs, habitId)
    IN  IF index = 0 THEN Rejected(hs, item)
        ELSE LET today   == Str(UtcDay(now))
                 changed == [hs EXCEPT ![index] =
                                IF shouldComplete THEN markCompleted(hs[index], today)
                                ELSE markIncomplete(hs[index], today)]
             IN  Handled(changed, saveHabits(changed))

\* handleHabitDelete(habitId), the user answering the confirm dialog
handleHabitDelete(hs, item, habitId, confirmed) ==
    IF FindIndex(hs, habitId) = 0 THEN Rejected(hs, item)
    ELSE IF ~confirmed THEN Dismissed(hs, item)
    ELSE LET remaining == FilterOut(hs, habitId)
         IN  Handled(remaining, saveHabits(remaining))

\* handleEditHabitSubmit(e) for the form of habit habitId holding formData; a
\* setter that throws ends the handler in its catch block, after the assignments
\* made before it
handleEditHabitSubmit(hs, item, habitId, formData) ==
    LET index == FindIndex(hs, habitId)
    IN  IF index = 0 THEN Rejected(hs, item)
        ELSE IF formData.name = "" \/ Len(formData.name) > 100 THEN Rejected(hs, item)
        ELSE LET named  == [hs[index] EXCEPT !.name = formData.name]
                 timed  == setNotificationTime(named, formData.notificationTime)
                 dayed  == setDaysOfWeek(timed.habit, formData.daysOfWeek)
                 edited == [dayed.habit EXCEPT !.notes = formData.notes,
                                               !.tags = formData.tags]
             IN  IF timed.threw THEN Rejected([hs EXCEPT ![index] = named], item)
                 ELSE IF dayed.threw THEN Rejected([hs EXCEPT ![index] = timed.habit], item)
                 ELSE LET changed == [hs EXCEPT ![index] = edited]
                      IN  Handled(changed, saveHabits(changed))

\* importHabits(file), the reader's onload: Storage.importData(jsonString, false),
\* then loadHabits() when it succeeded
importHabits(hs, item, text) ==
    LET outcome == importData(item, text, FALSE)
    IN  IF outcome.value THEN Handled(loadHabits(outcome.store), outcome.store)
        ELSE Rejected(hs, item)

\* clearAllData(), the user answering the confirm dialog: Storage.clearAllData()
\* removes the item
clearAllData(hs, item, confirmed) ==
    IF ~confirmed THEN Dismissed(hs, item)
    ELSE [habits |-> <<>>, store |-> NoItem, error |-> FALSE, saving |-> FALSE]

\* the notification state of the controller: its interval id, the page's live
\* intervals, the permission, and the reminders shown so far
Notifying(interval, tms, perm, shown) ==
    [interval |-> interval, timers |-> tms, permission |-> perm, reminders |-> shown]

\* startNotificationChecks(); setInterval returns an id greater than the one before
startNotificationChecks(n, hs) ==
    LET cleared == IF ~n.interval.null
                   THEN {t \in n.timers : t.id # n.interval.v}
                   ELSE n.timers
        id      == IF n.interval.null THEN 1 ELSE n.interval.v + 1
    IN  Notifying(Val(id), cleared \cup {[id |-> id, last |-> now]}, n.permission,
                  n.reminders \o checkAllHabitsForNotifications(hs, n.permission))

\* habits.some(h => h.notificationTime)
hasNotifications(hs) ==
    \E i \in 1..Len(hs) : ~hs[i].notificationTime.null /\ hs[i].notificationTime.v # <<>>

\* setupNotifications()
setupNotifications(n, hs) ==
    IF hasNotifications(hs) /\ n.permission = "granted" THEN startNotificationChecks(n, hs)
    ELSE n

\* handleEnableNotifications(): requestNotificationPermission() of the controller
handleEnableNotifications(n, hs, answer) ==
    LET perm == requestNotificationPermission(n.permission, answer)
        asked == [n EXCEPT !.permission = perm]
    IN  IF perm = "granted" THEN startNotificationChecks(asked, hs) ELSE asked

\* handleTestNotification(): it asks for the permission when it is not granted,
\* and shows a test notification, not a reminder
handleTestNotification(n, answer) ==
    IF n.permission # "granted"
    THEN [n EXCEPT !.permission = requestNotificationPermission(n.permission, answer)]
    ELSE n

---------------------------------------------------------------------------
(* The completion-tracking specification: one habit, marked and queried *)

Days == FirstDay..(FirstDay + MaxDay)

TzOffsets == {-8, 0, 8}

\* the arguments of the calls: day strings, date-time strings and Date objects
DateInputs ==
    {Str(d) : d \in Days} \cup {IsoStr(d) : d \in Days}
        \cup {DateObj(ParseDate(FirstDay + 1) + h) : h \in {0, 16}}

NoOp == [op |-> "none", arg |-> Str(0)]

NoRet == [op |-> "none"]

\* no permission asked for, no interval set, no reminder shown
NoNotifications ==
    /\ permission = "default"
    /\ notificationCheckInterval = Null
    /\ timers = {}
    /\ reminders = <<>>

Init ==
    /\ tz \in TzOffsets
    /\ now = ParseDate(FirstDay + MaxDay) + 16
    /\ habit = NewHabit("habit_1", "Read", Null, Null, Null, Null, "", Null)
    /\ lastOp = NoOp
    /\ prevOp = NoOp
    /\ ret = NoRet
    /\ NoNotifications
    /\ habits = <<>>
    /\ store = NoItem

MarkCompleted(date) ==
    /\ habit' = markCompleted(habit, date)
    /\ lastOp' = [op |-> "markCompleted", arg |-> date]
    /\ prevOp' = lastOp
    /\ ret' = NoRet
    /\ UNCHANGED <<now, tz, habits, store, notifications>>

MarkIncomplete(date) ==
    /\ habit' = markIncomplete(habit, date)
    /\ lastOp' = [op |-> "markIncomplete", arg |-> date]
    /\ prevOp' = lastOp
    /\ ret' = NoRet
    /\ UNCHANGED <<now, tz, habits, store, notifications>>

IsCompletedOn(date) ==
    /\ ret' = [op |-> "isCompletedOn", arg |-> date, value |-> isCompletedOn(habit, date)]
    /\ UNCHANGED <<habit, now, tz, lastOp, prevOp, habits, store, notifications>>

Next ==
    \E date \in DateInputs :
        \/ MarkCompleted(date)
        \/ MarkIncomplete(date)
        \/ IsCompletedOn(date)

Spec == Init /\ [][Next]_vars

---------------------------------------------------------------------------
(* The streak specification: calculateStreak on every habit of a window *)

StreakDays == FirstDay..(FirstDay + MaxStreakDay)

\* the schedules: none, the empty list, all seven days, Mon/Wed/Fri, the weekend
Schedules == {Null, Val(<<>>), Val(<<0, 1, 2, 3, 4, 5, 6>>), Val(<<1, 3, 5>>), Val(<<0, 6>>)}

\* the completions array after markCompleted of each day of S
RECURSIVE SeqOf(_)
SeqOf(S) ==
    IF S = {} THEN <<>>
    ELSE LET m == CHOOSE x \in S : \A y \in S : x <= y
         IN  <<m>> \o SeqOf(S \ {m})

\* the completions array after markCompleted of each day from a to b
RunOf(a, b) == [i \in 1..(b - a + 1) |-> a + i - 1]

\* a year-long run of completed days, ending today or a few days ago
LongRuns ==
    {RunOf(LocalDay(now) - start, LocalDay(now) - end) :
        start \in (MaxDaysChecked - RunSlack)..(MaxDaysChecked + RunSlack),
        end \in 0..MaxRunEnd}

InitStreak ==
    /\ tz \in TzOffsets
    /\ now \in {ParseDate(FirstDay + MaxStreakDay) + h : h \in {0, 16}}
    /\ \/ \E S \in SUBSET StreakDays, sched \in Schedules :
              habit = NewHabit("habit_1", "Read", Val(FirstDay), Val(SeqOf(S)), Null,
                               sched, "", Null)
       \/ \E run \in LongRuns, sched \in {Null, Val(<<1, 3, 5>>)} :
              /\ now = ParseDate(FirstDay + MaxStreakDay)
              /\ habit = NewHabit("habit_1", "Read", Val(FirstDay), Val(run), Null,
                                  sched, "", Null)
    /\ lastOp = NoOp
    /\ prevOp = NoOp
    /\ ret = NoRet
    /\ NoNotifications
    /\ habits = <<>>
    /\ store = NoItem

CalculateStreak ==
    /\ ret' = [op |-> "calculateStreak", value |-> calculateStreak(habit),
               walk |-> calculateStreakWalk(habit)]
    /\ UNCHANGED <<habit, now, tz, lastOp, prevOp, habits, store, notifications>>

NextStreak == CalculateStreak

SpecStreak == InitStreak /\ [][NextStreak]_vars

---------------------------------------------------------------------------
(* The statistics specification: getStatistics on every habit of a window *)

StatsDays == FirstDay..(FirstDay + MaxStatsDay)

InitStats ==
    /\ tz \in TzOffsets
    /\ now \in {ParseDate(FirstDay + MaxStatsDay) + h : h \in {0, 16}}
    /\ \E S \in SUBSET StatsDays, sched \in Schedules, created \in FirstDay..UtcDay(now) :
           habit = NewHabit("habit_1", "Read", Val(created), Val(SeqOf(S)), Null,
                            sched, "", Null)
    /\ lastOp = NoOp
    /\ prevOp = NoOp
    /\ ret = NoRet
    /\ NoNotifications
    /\ habits = <<>>
    /\ store = NoItem

GetStatistics ==
    /\ ret' = [op |-> "getStatistics", value |-> getStatistics(habit)]
    /\ UNCHANGED <<habit, now, tz, lastOp, prevOp, habits, store, notifications>>

NextStats == GetStatistics

SpecStats == InitStats /\ [][NextStats]_vars

---------------------------------------------------------------------------
(* The new-habit specification: a habit just constructed, its statistics read *)

\* the habit is constructed on one of the days FirstDay .. FirstDay + MaxNewDay
NewDays == FirstDay..(FirstDay + MaxNewDay)

\* new Habit(name, null, [], null, daysOfWeek): createdDate is the constructor's default
InitNew ==
    /\ tz \in TzOffsets
    /\ now \in {ParseDate(d) + h : d \in NewDays, h \in {0, 8, 16}}
    /\ \E sched \in Schedules :
           habit = NewHabit("habit_1", "Read", Null, Val(<<>>), Null, sched, "", Null)
    /\ lastOp = NoOp
    /\ prevOp = NoOp
    /\ ret = NoRet
    /\ NoNotifications
    /\ habits = <<>>
    /\ store = NoItem

NextNew == GetStatistics

SpecNew == InitNew /\ [][NextNew]_vars

---------------------------------------------------------------------------
(* The schedule specification: a habit with each weekly schedule, asked about days *)

ActiveDays == FirstDay..(FirstDay + MaxActiveDay)

\* the values setDaysOfWeek stores, and the empty list a caller may construct with
AllSchedules ==
    {Null, Val(<<>>)} \cup {Val(SeqOf(S)) : S \in (SUBSET (0..6)) \ {{}}}

\* the arguments of isActiveOnDay: weekday numbers, Date objects, day strings
ActiveInputs ==
    {Num(n) : n \in 0..6}
        \cup {DateObj(ParseDate(d) + h) : d \in ActiveDays, h \in {0, 16}}
        \cup {Str(d) : d \in ActiveDays}

InitActive ==
    /\ tz \in TzOffsets
    /\ now = ParseDate(FirstDay) + 16
    /\ \E sched \in AllSchedules :
           habit = NewHabit("habit_1", "Read", Null, Val(<<>>), Null, sched, "", Null)
    /\ lastOp = NoOp
    /\ prevOp = NoOp
    /\ ret = NoRet
    /\ NoNotifications
    /\ habits = <<>>
    /\ store = NoItem

IsActiveOnDay(dayOrDate) ==
    /\ ret' = [op |-> "isActiveOnDay", arg |-> dayOrDate,
               value |-> isActiveOnDay(habit, dayOrDate)]
    /\ UNCHANGED <<habit, now, tz, lastOp, prevOp, habits, store, notifications>>

GetDaysOfWeekString ==
    /\ ret' = [op |-> "getDaysOfWeekString", value |-> getDaysOfWeekString(habit)]
    /\ UNCHANGED <<habit, now, tz, lastOp, prevOp, habits, store, notifications>>

NextActive ==
    \/ \E dayOrDate \in ActiveInputs : IsActiveOnDay(dayOrDate)
    \/ GetDaysOfWeekString

SpecActive == InitActive /\ [][NextActive]_vars

---------------------------------------------------------------------------
(* The all-days specification: a habit scheduled on all seven days, and the same *)
(* habit with no schedule, asked the same questions                              *)

\* "09:00"
NineOClock == <<"0", "9", ":", "0", "0">>

\* "20:30"
HalfPastEight == <<"2", "0", ":", "3", "0">>

AllSeven == Val(<<0, 1, 2, 3, 4, 5, 6>>)

\* the same habit with daysOfWeek = null
WithoutSchedule(h) == [h EXCEPT !.daysOfWeek = Null]

\* every computation that reads daysOfWeek
Answers(h) ==
    [isActiveOnDay           |-> [a \in ActiveInputs |-> isActiveOnDay(h, a)],
     calculateStreak         |-> calculateStreak(h),
     getStatistics           |-> getStatistics(h),
     getDaysOfWeekString     |-> getDaysOfWeekString(h),
     getNextNotificationTime |-> getNextNotificationTime(h)]

InitAllDays ==
    /\ tz \in TzOffsets
    /\ now \in {ParseDate(FirstDay + MaxStatsDay) + h : h \in {0, 16}}
    /\ \E S \in SUBSET StatsDays, created \in FirstDay..UtcDay(now),
          time \in {Null, Val(NineOClock)} :
           habit = NewHabit("habit_1", "Read", Val(created), Val(SeqOf(S)), time,
                            AllSeven, "", Null)
    /\ lastOp = NoOp
    /\ prevOp = NoOp
    /\ ret = NoRet
    /\ NoNotifications
    /\ habits = <<>>
    /\ store = NoItem

AskBoth ==
    /\ ret' = [op |-> "askBoth", scheduled |-> Answers(habit),
               unscheduled |-> Answers(WithoutSchedule(habit))]
    /\ UNCHANGED <<habit, now, tz, lastOp, prevOp, habits, store, notifications>>

NextAllDays == AskBoth

SpecAllDays == InitAllDays /\ [][NextAllDays]_vars

---------------------------------------------------------------------------
(* The settings specification: notification time and weekly schedule set, and  *)
(* the habit written to a plain object and read back                           *)

\* the arguments of setNotificationTime: null, '', "09:00", "20:30", "00:00",
\* "23:59", "24:00", "12:60", "9:00", "09:0", "0900", "ab:cd", "09:00 ", "09:00:00"
TimeInputs ==
    {Null, Val(<<>>), Val(NineOClock), Val(HalfPastEight),
     Val(<<"0", "0", ":", "0", "0">>), Val(<<"2", "3", ":", "5", "9">>),
     Val(<<"2", "4", ":", "0", "0">>), Val(<<"1", "2", ":", "6", "0">>),
     Val(<<"9", ":", "0", "0">>), Val(<<"0", "9", ":", "0">>),
     Val(<<"0", "9", "0", "0">>), Val(<<"a", "b", ":", "c", "d">>),
     Val(<<"0", "9", ":", "0", "0", " ">>),
     Val(<<"0", "9", ":", "0", "0", ":", "0", "0">>)}

\* the arguments of setDaysOfWeek: null, [], and arrays in and out of order, with
\* and without duplicates, with elements out of range and not integers
DaysInputs ==
    {Null, Val(<<>>),
     Val(<<Integer(2)>>),
     Val(<<Integer(1), Integer(3), Integer(5)>>),
     Val(<<Integer(5), Integer(3), Integer(1)>>),
     Val(<<Integer(1), Integer(1), Integer(3)>>),
     Val(<<Integer(6), Integer(0), Integer(6), Integer(0)>>),
     Val(<<Integer(6), Integer(5), Integer(4), Integer(3), Integer(2), Integer(1),
           Integer(0)>>),
     Val(<<Integer(7)>>),
     Val(<<Integer(-1)>>),
     Val(<<Integer(3), Integer(7)>>),
     Val(<<Integer(1), Fraction(1)>>)}

InitSettings ==
    /\ tz \in TzOffsets
    /\ now = ParseDate(FirstDay + MaxDay) + 16
    /\ \E sched \in Schedules, time \in {Null, Val(NineOClock)} :
           \/ habit = NewHabit("habit_1", "Read", Null, Null, time, sched, "", Null)
           \/ habit = NewHabit("habit_1", "Read", Val(FirstDay),
                               Val(<<FirstDay, FirstDay + 1>>), time, sched,
                               "in the evening", Val(<<"health">>))
    /\ lastOp = NoOp
    /\ prevOp = NoOp
    /\ ret = NoRet
    /\ NoNotifications
    /\ habits = <<>>
    /\ store = NoItem

SetNotificationTime(time) ==
    LET outcome == setNotificationTime(habit, time)
    IN  /\ habit' = outcome.habit
        /\ lastOp' = [op |-> "setNotificationTime", arg |-> time, threw |-> outcome.threw]
        /\ ret' = NoRet
        /\ UNCHANGED <<now, tz, prevOp, habits, store, notifications>>

SetDaysOfWeek(days) ==
    LET outcome == setDaysOfWeek(habit, days)
    IN  /\ habit' = outcome.habit
        /\ lastOp' = [op |-> "setDaysOfWeek", arg |-> days, threw |-> outcome.threw]
        /\ ret' = NoRet
        /\ UNCHANGED <<now, tz, prevOp, habits, store, notifications>>

\* Habit.fromJSON(habit.toJSON())
RoundTrip ==
    /\ ret' = [op |-> "fromJSON", arg |-> toJSON(habit), value |-> fromJSON(toJSON(habit))]
    /\ UNCHANGED <<habit, now, tz, lastOp, prevOp, habits, store, notifications>>

NextSettings ==
    \/ \E time \in TimeInputs : SetNotificationTime(time)
    \/ \E days \in DaysInputs : SetDaysOfWeek(days)
    \/ RoundTrip

SpecSettings == InitSettings /\ [][NextSettings]_vars

---------------------------------------------------------------------------
(* The storage specification: the stored item, loaded and imported into *)

\* a stored object with all its properties
Record(id, name) ==
    [id |-> id, name |-> name, createdDate |-> Val(FirstDay), completions |-> Val(<<>>),
     notificationTime |-> Null, daysOfWeek |-> Null, notes |-> "", tags |-> Val(<<>>)]

\* the objects of an imported array: two complete ones, and one with the id of the
\* second that lacks the createdDate and the completions
Records ==
    {Record("a", "Run"), Record("b", "Walk"),
     [Record("b", "Swim") EXCEPT !.createdDate = Null, !.completions = Null]}

\* the objects of the array the model starts from: those, another with the id of the
\* first, and one that lacks the id
StoredRecords == Records \cup {Record("a", "Read"), Record(Undefined, "Read")}

\* the arrays of at most n objects of R
ArraysUpTo(R, n) == UNION {[1..k -> R] : k \in 0..n}

StoredItems ==
    {NoItem, Unparsable, NotArray, ArrayWithNull(<<Record("a", "Read")>>)}
        \cup {ArrayOf(items) : items \in ArraysUpTo(StoredRecords, MaxImport)}

ImportTexts ==
    {BadText, NoHabitsText, HabitsNotArrayText, HabitsWithNullText(<<Record("a", "Run")>>)}
        \cup {HabitsText(records) : records \in ArraysUpTo(Records, MaxImport)}

\* the habit variable plays no part here
InitStore ==
    /\ tz = 0
    /\ now = ParseDate(FirstDay + MaxDay) + 16
    /\ habit = NewHabit("habit_1", "Read", Null, Null, Null, Null, "", Null)
    /\ lastOp = NoOp
    /\ prevOp = NoOp
    /\ ret = NoRet
    /\ NoNotifications
    /\ habits = <<>>
    /\ store \in StoredItems

LoadHabits ==
    /\ ret' = [op |-> "loadHabits", value |-> loadHabits(store)]
    /\ UNCHANGED <<habit, now, tz, lastOp, prevOp, habits, store, notifications>>

ImportData(text, merge) ==
    LET outcome == importData(store, text, merge)
    IN  /\ Len(outcome.store.items) <= MaxImport + 1
        /\ store' = outcome.store
        /\ ret' = [op |-> "importData", merge |-> merge, value |-> outcome.value]
        /\ UNCHANGED <<habit, now, tz, lastOp, prevOp, habits, notifications>>

NextStore ==
    \/ LoadHabits
    \/ \E text \in ImportTexts, merge \in BOOLEAN : ImportData(text, merge)

SpecStore == InitStore /\ [][NextStore]_vars

---------------------------------------------------------------------------
(* The application specification: the controller's collection loaded from the *)
(* stored item, its handlers, and the storage module's calls by id             *)

\* the ids given to the handlers and the storage calls; no stored habit has "z"
\* until saveHabit is given one
HabitIds == {"a", "b", "z"}

\* the habits given to saveHabit
SavedHabits == {fromJSON(Record("a", "Run")), fromJSON(Record("z", "Swim"))}

\* the data read from the edit form
Forms ==
    {[name |-> "Jog", notificationTime |-> Val(NineOClock),
      daysOfWeek |-> Val(<<Integer(1), Integer(3)>>), notes |-> "", tags |-> <<>>]}

\* init(): habits = Storage.loadHabits()
InitApp ==
    /\ tz = 0
    /\ now = ParseDate(FirstDay + MaxDay) + 16
    /\ habit = NewHabit("habit_1", "Read", Null, Null, Null, Null, "", Null)
    /\ lastOp = NoOp
    /\ prevOp = NoOp
    /\ ret = NoRet
    /\ NoNotifications
    /\ store \in {NoItem}
           \cup {ArrayOf(items) :
                   items \in ArraysUpTo({Record("a", "Read"), Record("b", "Walk")}, MaxImport)}
    /\ habits = loadHabits(store)

HandleHabitComplete(habitId, shouldComplete) ==
    LET after == handleHabitComplete(habits, store, habitId, shouldComplete)
    IN  /\ habits' = after.habits
        /\ store' = after.store
        /\ ret' = [op |-> "handleHabitComplete", id |-> habitId]
        /\ UNCHANGED <<habit, now, tz, lastOp, prevOp, notifications>>

HandleHabitDelete(habitId, confirmed) ==
    LET after == handleHabitDelete(habits, store, habitId, confirmed)
    IN  /\ habits' = after.habits
        /\ store' = after.store
        /\ ret' = [op |-> "handleHabitDelete", id |-> habitId]
        /\ UNCHANGED <<habit, now, tz, lastOp, prevOp, notifications>>

HandleEditHabitSubmit(habitId, formData) ==
    LET after == handleEditHabitSubmit(habits, store, habitId, formData)
    IN  /\ habits' = after.habits
        /\ store' = after.store
        /\ ret' = [op |-> "handleEditHabitSubmit", id |-> habitId]
        /\ UNCHANGED <<habit, now, tz, lastOp, prevOp, notifications>>

GetHabitById(habitId) ==
    /\ ret' = [op |-> "getHabitById", id |-> habitId, found |-> getHabitById(store, habitId)]
    /\ UNCHANGED <<habit, now, tz, lastOp, prevOp, habits, store, notifications>>

DeleteHabit(habitId) ==
    LET outcome == deleteHabit(store, habitId)
    IN  /\ store' = outcome.store
        /\ ret' = [op |-> "deleteHabit", id |-> habitId, value |-> outcome.value]
        /\ UNCHANGED <<habit, now, tz, lastOp, prevOp, habits, notifications>>

SaveHabit(h) ==
    LET outcome == saveHabit(store, h)
    IN  /\ Len(outcome.store.items) <= MaxImport + 1
        /\ store' = outcome.store
        /\ ret' = [op |-> "saveHabit", id |-> h.id, value |-> outcome.value]
        /\ UNCHANGED <<habit, now, tz, lastOp, prevOp, habits, notifications>>

NextApp ==
    \/ \E habitId \in HabitIds, shouldComplete \in BOOLEAN :
           HandleHabitComplete(habitId, shouldComplete)
    \/ \E habitId \in HabitIds, confirmed \in BOOLEAN : HandleHabitDelete(habitId, confirmed)
    \/ \E habitId \in HabitIds, formData \in Forms : HandleEditHabitSubmit(habitId, formData)
    \/ \E habitId \in HabitIds : GetHabitById(habitId)
    \/ \E habitId \in HabitIds : DeleteHabit(habitId)
    \/ \E h \in SavedHabits : SaveHabit(h)

SpecApp == InitApp /\ [][NextApp]_vars

---------------------------------------------------------------------------
(* The controller specification: from an empty store, the forms, the buttons   *)
(* and the import of a file                                                    *)

\* a name of 101 characters
LongName ==
    "xxxxxxxxxxxxxxxxxxxxxxxxxxxxxxxxxxxxxxxxxxxxxxxxxxxxxxxxxxxxxxxxxxxxxxxxxxxxxxxxxxxxxxxxxxxxxxxxxxxxx"

\* the text of the time field: "24:00", "9:00"
Midnight24 == <<"2", "4", ":", "0", "0">>

NineShort == <<"9", ":", "0", "0">>

\* what getHabitFormData() returns for the add and the edit form: the trimmed
\* name, the text of the time field or null, the checked boxes in document order
Form(name, notificationTime, daysOfWeek) ==
    [name |-> name, notificationTime |-> notificationTime, daysOfWeek |-> daysOfWeek,
     notes |-> "", tags |-> <<>>]

FormInputs ==
    {Form("Jog", Val(NineOClock), Val(<<Integer(1), Integer(3)>>)),
     Form("Jog", Val(Midnight24), Null),
     Form("Jog", Val(NineShort), Null),
     Form("", Null, Null),
     Form(LongName, Null, Null)}

\* the objects of an imported file: a well-formed one; one with the same id whose
\* completions are out of order with a day twice; one whose daysOfWeek is out of
\* order with a day twice and a 7 and whose notificationTime is "25:99"
FileRecords ==
    {[Record("a", "Run") EXCEPT !.completions = Val(<<FirstDay, FirstDay + 1>>),
                                !.notificationTime = Val(NineOClock),
                                !.daysOfWeek = Val(<<1, 3>>)],
     [Record("a", "Swim") EXCEPT !.completions = Val(<<FirstDay + 1, FirstDay, FirstDay + 1>>)],
     [Record("b", "Yoga") EXCEPT !.daysOfWeek = Val(<<3, 1, 1, 7>>),
                                 !.notificationTime = Val(<<"2", "5", ":", "9", "9">>)]}

FileTexts ==
    {BadText, NoHabitsText, HabitsNotArrayText, HabitsWithNullText(<<Record("a", "Run")>>)}
        \cup {HabitsText(records) : records \in ArraysUpTo(FileRecords, MaxImport)}

\* the ids the buttons and the storage calls are given; no habit has "z"
KnownIds == {"a", "b", "z"} \cup {GeneratedIds[i] : i \in 1..Len(GeneratedIds)}

\* the ids of the habits of an array
HabitIdsOf(hs) == {hs[i].id : i \in 1..Len(hs)}

\* init() on an empty localStorage
InitController ==
    /\ tz = 0
    /\ now = ParseDate(FirstDay + MaxDay) + 16
    /\ habit = NewHabit("habit_1", "Read", Null, Null, Null, Null, "", Null)
    /\ lastOp = NoOp
    /\ prevOp = NoOp
    /\ ret = NoRet
    /\ NoNotifications
    /\ store = NoItem
    /\ habits = loadHabits(store)

\* a handler has run: the collection and the item it leaves, and what it reported
Finish(op, after) ==
    /\ habits' = after.habits
    /\ store' = after.store
    /\ ret' = [op |-> op, error |-> after.error]
    /\ UNCHANGED <<habit, now, tz, lastOp, prevOp, notifications>>

\* the save of a handler succeeds, or localStorage.setItem throws
Save(after, saved) == IF saved THEN after ELSE SaveFailed(after, store)

AddHabitSubmit(formData, saved) ==
    LET used == HabitIdsOf(habits) \cup HabitIdsOf(loadHabits(store))
    IN  /\ Len(habits) < MaxHabits
        /\ \E i \in 1..Len(GeneratedIds) : GeneratedIds[i] \notin used
        /\ Finish("handleAddHabitSubmit",
                  Save(handleAddHabitSubmit(habits, store, formData, generateId(used)), saved))

EditHabitSubmit(habitId, formData, saved) ==
    Finish("handleEditHabitSubmit",
           Save(handleEditHabitSubmit(habits, store, habitId, formData), saved))

HabitComplete(habitId, shouldComplete, saved) ==
    Finish("handleHabitComplete",
           Save(handleHabitComplete(habits, store, habitId, shouldComplete), saved))

HabitDelete(habitId, confirmed, saved) ==
    Finish("handleHabitDelete",
           Save(handleHabitDelete(habits, store, habitId, confirmed), saved))

\* importHabits(file): when the save inside importData fails, importData returns
\* false and nothing is loaded
ImportHabits(text, saved) ==
    Finish("importHabits",
           IF saved THEN importHabits(habits, store, text) ELSE Rejected(habits, store))

ClearAllData(confirmed) ==
    Finish("clearAllData", clearAllData(habits, store, confirmed))

\* localStorage has room: every save succeeds
NextController ==
    \/ \E text \in FileTexts : ImportHabits(text, TRUE)
    \/ \E formData \in FormInputs : AddHabitSubmit(formData, TRUE)
    \/ \E habitId \in KnownIds, formData \in FormInputs :
           EditHabitSubmit(habitId, formData, TRUE)
    \/ \E habitId \in KnownIds, shouldComplete \in BOOLEAN :
           HabitComplete(habitId, shouldComplete, TRUE)
    \/ \E habitId \in KnownIds, confirmed \in BOOLEAN : HabitDelete(habitId, confirmed, TRUE)
    \/ \E confirmed \in BOOLEAN : ClearAllData(confirmed)

SpecController == InitController /\ [][NextController]_vars

---------------------------------------------------------------------------
(* The identity specification: from an empty store, the controller's add, edit *)
(* and delete, the storage module's saveHabit, deleteHabit and importData, and *)
(* the page loaded again                                                       *)

\* init() again: habits = Storage.loadHabits()
ReloadHabits ==
    Finish("loadHabits", Dismissed(loadHabits(store), store))

\* the form of this specification: a name and nothing else
PlainForms == {Form("Jog", Null, Null)}

\* the texts given to importData here: arrays of two well-formed objects with
\* different ids, in any number and order
IdTexts ==
    {BadText}
        \cup {HabitsText(records) :
                records \in ArraysUpTo({Record("a", "Run"), Record("b", "Walk")}, MaxImport)}

NextIds ==
    \/ \E text \in IdTexts, merge \in BOOLEAN : ImportData(text, merge)
    \/ \E h \in SavedHabits : SaveHabit(h)
    \/ \E habitId \in HabitIds : DeleteHabit(habitId)
    \/ ReloadHabits
    \/ \E formData \in PlainForms : AddHabitSubmit(formData, TRUE)
    \/ \E habitId \in KnownIds, formData \in PlainForms :
           EditHabitSubmit(habitId, formData, TRUE)
    \/ \E habitId \in KnownIds, confirmed \in BOOLEAN : HabitDelete(habitId, confirmed, TRUE)

SpecIds == InitController /\ [][NextIds]_vars

---------------------------------------------------------------------------
(* The today specification: at every hour of a day, in three zones, habits     *)
(* added and completed, their streak read and their reminder decided           *)

\* the add form filled in for a habit of every day, reminded at nine
DailyForms == {Form("Jog", Val(NineOClock), Null)}

InitToday ==
    /\ tz \in TzOffsets
    /\ now \in {ParseDate(FirstDay + MaxDay) + h : h \in 0..(HoursPerDay - 1)}
    /\ habit = NewHabit("habit_1", "Read", Null, Null, Null, Null, "", Null)
    /\ lastOp = NoOp
    /\ prevOp = NoOp
    /\ ret = NoRet
    /\ NoNotifications
    /\ store = NoItem
    /\ habits = loadHabits(store)

\* habit.calculateStreak() of the habit with the id; today: the day its walk
\* starts from, the dateStr of the first turn of its loop
CalculateStreakOf(habitId) ==
    /\ FindIndex(habits, habitId) > 0
    /\ ret' = [op |-> "calculateStreak", id |-> habitId,
               value |-> calculateStreak(habits[FindIndex(habits, habitId)]),
               today |-> normalizeDate(DateObj(SetHoursZero(now)))]
    /\ UNCHANGED <<habit, now, tz, lastOp, prevOp, habits, store, notifications>>

\* Notifications.shouldNotifyForHabit(habit) of the habit with the id; today: the
\* day it tests for completion
ShouldNotifyForHabit(habitId) ==
    /\ FindIndex(habits, habitId) > 0
    /\ ret' = [op |-> "shouldNotifyForHabit", id |-> habitId,
               value |-> shouldNotifyForHabit(habits[FindIndex(habits, habitId)]),
               today |-> UtcDay(now)]
    /\ UNCHANGED <<habit, now, tz, lastOp, prevOp, habits, store, notifications>>

NextToday ==
    \/ \E formData \in DailyForms : AddHabitSubmit(formData, TRUE)
    \/ \E habitId \in KnownIds, shouldComplete \in BOOLEAN :
           HabitComplete(habitId, shouldComplete, TRUE)
    \/ \E habitId \in KnownIds : CalculateStreakOf(habitId)
    \/ \E habitId \in KnownIds : ShouldNotifyForHabit(habitId)

SpecToday == InitToday /\ [][NextToday]_vars

---------------------------------------------------------------------------
(* The failure specification: the four handlers of the controller, each save   *)
(* succeeding or failing as localStorage.setItem returns or throws             *)

NextFailure ==
    \/ \E formData \in FormInputs, saved \in BOOLEAN : AddHabitSubmit(formData, saved)
    \/ \E habitId \in KnownIds, formData \in FormInputs, saved \in BOOLEAN :
           EditHabitSubmit(habitId, formData, saved)
    \/ \E habitId \in KnownIds, shouldComplete \in BOOLEAN, saved \in BOOLEAN :
           HabitComplete(habitId, shouldComplete, saved)
    \/ \E habitId \in KnownIds, confirmed \in BOOLEAN, saved \in BOOLEAN :
           HabitDelete(habitId, confirmed, saved)

SpecFailure == InitController /\ [][NextFailure]_vars

---------------------------------------------------------------------------
(* The notification specification: the page loaded and loaded again, the       *)
(* permission asked for, the interval ticking as the clock advances, and the   *)
(* user adding, editing, completing and importing habits                       *)

\* the reminder time of the habits: four in the afternoon
FourOClock == <<"1", "6", ":", "0", "0">>

\* a stored habit of every day, reminded at four in the afternoon
ReminderRecord ==
    [Record("a", "Run") EXCEPT !.notificationTime = Val(FourOClock)]

\* the forms: one with a reminder at four, one without a reminder
NotifyForms == {Form("Jog", Val(FourOClock), Null), Form("Jog", Null, Null)}

NotifyTexts == {HabitsText(<<ReminderRecord>>)}

\* the ids of the habits the user edits and completes
NotifyIds == {"a", "habit_1"}

\* the answers to the browser's permission prompt
Answers3 == {"granted", "denied", "default"}

\* the notification state now
Current == Notifying(notificationCheckInterval, timers, permission, reminders)

\* the notification state is n from now on
Become(n) ==
    /\ Len(n.reminders) <= MaxReminders
    /\ notificationCheckInterval' = n.interval
    /\ timers' = n.timers
    /\ permission' = n.permission
    /\ reminders' = n.reminders

\* init() at three in the afternoon, local time: loadHabits(), setupNotifications()
InitNotify ==
    /\ tz \in TzOffsets
    /\ now = LocalMidnight(FirstDay + MaxDay) + 15
    /\ habit = NewHabit("habit_1", "Read", Null, Null, Null, Null, "", Null)
    /\ lastOp = NoOp
    /\ prevOp = NoOp
    /\ ret = [op |-> "init"]
    /\ store \in {NoItem, ArrayOf(<<ReminderRecord>>)}
    /\ habits = loadHabits(store)
    /\ \E perm \in Answers3 :
           LET n == setupNotifications(Notifying(Null, {}, perm, <<>>), habits)
           IN  /\ notificationCheckInterval = n.interval
               /\ timers = n.timers
               /\ permission = n.permission
               /\ reminders = n.reminders

\* the page loaded again: its intervals are gone, the item, the permission and
\* the reminders already shown stay
Reload ==
    /\ habits' = loadHabits(store)
    /\ Become(setupNotifications(Notifying(Null, {}, permission, reminders),
                                 loadHabits(store)))
    /\ ret' = [op |-> "init"]
    /\ UNCHANGED <<habit, now, tz, lastOp, prevOp, store>>

HandleEnableNotifications(answer) ==
    /\ permission # "granted"
    /\ Become(handleEnableNotifications(Current, habits, answer))
    /\ ret' = [op |-> "handleEnableNotifications"]
    /\ UNCHANGED <<habit, now, tz, lastOp, prevOp, habits, store>>

HandleTestNotification(answer) ==
    /\ Become(handleTestNotification(Current, answer))
    /\ ret' = [op |-> "handleTestNotification"]
    /\ UNCHANGED <<habit, now, tz, lastOp, prevOp, habits, store>>

\* the callback of setInterval runs, once in a minute: in the minute the clock
\* stands at when it has not run in it yet
Tick(timer) ==
    /\ timer \in timers
    /\ timer.last < now
    /\ Become(Notifying(notificationCheckInterval,
                        (timers \ {timer}) \cup {[timer EXCEPT !.last = now]},
                        permission,
                        reminders \o checkAllHabitsForNotifications(habits, permission)))
    /\ ret' = [op |-> "tick"]
    /\ UNCHANGED <<habit, now, tz, lastOp, prevOp, habits, store>>

\* an hour passes, every interval having run in this one
Advance ==
    /\ now < LocalMidnight(FirstDay + MaxDay) + 15 + MaxAdvance
    /\ \A timer \in timers : timer.last = now
    /\ now' = now + 1
    /\ ret' = [op |-> "advance"]
    /\ UNCHANGED <<habit, tz, lastOp, prevOp, habits, store, notifications>>

NextNotify ==
    \/ Reload
    \/ \E answer \in Answers3 : HandleEnableNotifications(answer)
    \/ \E answer \in Answers3 : HandleTestNotification(answer)
    \/ \E timer \in timers : Tick(timer)
    \/ Advance
    \/ \E formData \in NotifyForms : AddHabitSubmit(formData, TRUE)
    \/ \E habitId \in NotifyIds, formData \in NotifyForms :
           EditHabitSubmit(habitId, formData, TRUE)
    \/ \E habitId \in NotifyIds, shouldComplete \in BOOLEAN :
           HabitComplete(habitId, shouldComplete, TRUE)
    \/ \E text \in NotifyTexts : ImportHabits(text, TRUE)

SpecNotify == InitNotify /\ [][NextNotify]_vars

---------------------------------------------------------------------------
(* The vocabulary of the properties: calendar days, not instants *)

\* the weekday of a calendar day, 0 = Sunday
Weekday(d) == (d + 4) % 7

\* the habit's weekly restriction says it is performed on calendar day d
Scheduled(h, d) ==
    \/ h.daysOfWeek.null
    \/ h.daysOfWeek.v = <<>>
    \/ \E i \in 1..Len(h.daysOfWeek.v) : h.daysOfWeek.v[i] = Weekday(d)

\* every day is a scheduled day
EveryDay(h) == \A d \in 0..6 : Scheduled(h, d)

\* the set of weekdays the habit is restricted to (empty when daysOfWeek is absent)
WeekdaySet(h) ==
    IF h.daysOfWeek.null THEN {}
    ELSE {h.daysOfWeek.v[i] : i \in 1..Len(h.daysOfWeek.v)}

\* daysOfWeek is absent, empty, or holds all seven weekdays
Unrestricted(h) == WeekdaySet(h) = {} \/ WeekdaySet(h) = 0..6

\* the local weekday an argument of isActiveOnDay stands for
ArgWeekday(a) ==
    IF a.kind = "number" THEN a.v
    ELSE IF a.kind = "Date" THEN Weekday(LocalDay(a.v))
    ELSE Weekday(a.v)

\* the set of completed days
Completed(h) == {h.completions[i] : i \in 1..Len(h.completions)}

\* today, the local calendar day
Today == LocalDay(now)

\* the habit was created today (the constructor's default day) and has no completion
BrandNew(h) == h.createdDate = UtcDay(now) /\ Len(h.completions) = 0

MaxOf(S) == CHOOSE x \in S : \A y \in S : y <= x

MinOf(S) == CHOOSE x \in S : \A y \in S : x <= y

\* the oldest day that can bear on the current streak: the first day of the
\* 365-day window or, when that is later, the seventh day before the oldest
\* completion (no older day is completed, and that week holds a scheduled day)
StreakLo(h) ==
    LET windowLo == Today - (MaxDaysChecked - 1)
        oldest == MinOf(Completed(h) \cup {Today}) - 7
    IN  IF windowLo > oldest THEN windowLo ELSE oldest

\* the completed scheduled days from lo to today that are newer than every day of B
CountAfter(h, lo, B) ==
    LET stop == IF B = {} THEN lo - 1 ELSE MaxOf(B)
    IN  Cardinality({d \in (stop + 1)..Today : Scheduled(h, d) /\ d \in Completed(h)})

---------------------------------------------------------------------------
(* Completion tracking *)

\* C1: starting from a habit with no completions, after any sequence of
\* markCompleted and markIncomplete calls the completions sequence is strictly
\* ascending: chronological, and no day twice.
C1_StrictlyAscending ==
    \A i \in 1..Len(habit.completions) :
        \A j \in 1..Len(habit.completions) :
            i < j => habit.completions[i] < habit.completions[j]

\* a day was removed and marked again in front of two later completed days
C1_Witness ==
    /\ lastOp.op = "markCompleted"
    /\ prevOp.op = "markIncomplete"
    /\ normalizeDate(prevOp.arg) = normalizeDate(lastOp.arg)
    /\ Len(habit.completions) >= 3
    /\ habit.completions[1] = normalizeDate(lastOp.arg)

C3_Idempotent ==
    [][(/\ lastOp.op = "markCompleted"
        /\ lastOp' = lastOp
        /\ prevOp' = lastOp) => habit'.completions = habit.completions]_vars

\* markCompleted(d) was called twice in a row, on a day that was not completed
\* before, given once as a day string and once as a date-time string
C3_Witness ==
    /\ lastOp.op = "markCompleted"
    /\ prevOp.op = "markCompleted"
    /\ normalizeDate(prevOp.arg) = normalizeDate(lastOp.arg)
    /\ Len(habit.completions) = 1
    /\ habit.completions[1] = normalizeDate(lastOp.arg)

---------------------------------------------------------------------------
(* Current streak *)

\* C4: only today gets leniency: the walk passes a scheduled-but-incomplete
\* today, and stops at the first scheduled-but-incomplete day before today, so
\* the streak is the number of completed scheduled days newer than that day,
\* whether or not today itself is a scheduled day.
C4_LeniencyOnlyForToday ==
    ret.op = "calculateStreak" =>
        LET lo == StreakLo(habit)
            B  == {d \in lo..(Today - 1) : Scheduled(habit, d) /\ d \notin Completed(habit)}
        IN  ret.value = CountAfter(habit, lo, B)

\* C5: for a habit scheduled every day the streak is the length of the maximal
\* run of consecutive completed days, inside the 365-day window, that ends
\* today if today is completed and yesterday otherwise; the 5 days before today
\* and not today give 5; today and 10 days ago with nothing between give 1.
C5_DailyRun ==
    (ret.op = "calculateStreak" /\ EveryDay(habit)) =>
        LET C     == Completed(habit)
            lo    == StreakLo(habit)
            end   == IF Today \in C THEN Today ELSE Today - 1
            gap   == MaxOf({d \in (lo - 1)..end : d \notin C \/ d = lo - 1})
        IN  /\ ret.value = end - gap
            /\ C = (Today - 5)..(Today - 1) => ret.value = 5
            /\ C = {Today - 10, Today} => ret.value = 1

\* a daily habit completed on the 5 days before today and on no other day
C5_Witness ==
    /\ ret.op = "calculateStreak"
    /\ EveryDay(habit)
    /\ Completed(habit) = (Today - 5)..(Today - 1)
    /\ ret.value = 5

C7_StreakBounds ==
    ret.op = "calculateStreak" =>
        /\ 0 <= ret.value
        /\ ret.value <= MaxDaysChecked
        /\ ret.value <= Len(habit.completions)
        /\ Len(habit.completions) = 0 => ret.value = 0
        /\ Len(habit.completions) = 0 \/ ret.walk.done
        /\ ret.walk.daysChecked + (IF ret.walk.broke THEN 1 ELSE 0) <= MaxDaysChecked

\* the walk ran through the whole window, every day of it completed
C7_Witness ==
    /\ ret.op = "calculateStreak"
    /\ ret.walk.done
    /\ ~ret.walk.broke
    /\ ret.walk.daysChecked = MaxDaysChecked
    /\ ret.value = MaxDaysChecked
    /\ Len(habit.completions) > MaxDaysChecked

---------------------------------------------------------------------------
(* Statistics *)

\* no calendar day strictly between the i-th and the next completion is scheduled
Contiguous(h, i) ==
    \A d \in (h.completions[i] + 1)..(h.completions[i + 1] - 1) : ~Scheduled(h, d)

\* the length of the longest run of completions with only unscheduled days between
LongestRun(h) ==
    LET n == Len(h.completions)
    IN  IF n = 0 THEN 0
        ELSE MaxOf({len \in 1..n : \E i \in 1..(n - len + 1) :
                        \A k \in i..(i + len - 2) : Contiguous(h, k)})

\* n / d * 100 rounded to the nearest integer, a half rounded up
Rounded(n, d) ==
    CHOOSE k \in 0..(100 * n + 1) : 2 * k * d <= 200 * n + d /\ 2 * k * d > 200 * n - d

\* the number of scheduled days from createdDate through today
ScheduledDaysPassed(h) == Cardinality({d \in h.createdDate..Today : Scheduled(h, d)})

\* C8: longestStreak is the length of the longest run of completions, in
\* ascending order, with no scheduled day strictly between two consecutive
\* ones; a scheduled day between two completions starts a new run of 1; it is
\* 0 with no completion and at least 1 otherwise.
C8_LongestStreak ==
    ret.op = "getStatistics" =>
        /\ ret.value.longestStreak = LongestRun(habit)
        /\ Len(habit.completions) = 0 => ret.value.longestStreak = 0
        /\ Len(habit.completions) > 0 => ret.value.longestStreak >= 1

\* C9: completionRate is round(totalCompletions / scheduledDaysPassed * 100),
\* scheduledDaysPassed being the number of scheduled days from createdDate
\* through today (every day of it when the habit has no restriction), and 0
\* when scheduledDaysPassed is 0.
C9_CompletionRate ==
    ret.op = "getStatistics" =>
        LET passed == ScheduledDaysPassed(habit)
        IN  ret.value.completionRate =
                IF passed > 0 THEN Rounded(Len(habit.completions), passed) ELSE 0

\* C10: when the completions are a subset of the scheduled days since
\* creation, completionRate is an integer from 0 to 100.
C10_RateInRange ==
    (/\ ret.op = "getStatistics"
     /\ \A d \in Completed(habit) :
            habit.createdDate <= d /\ d <= Today /\ Scheduled(habit, d))
        => ret.value.completionRate \in 0..100

C12_ActiveOnDay ==
    /\ ret.op = "isActiveOnDay"
           => ret.value = (Unrestricted(habit) \/ ArgWeekday(ret.arg) \in WeekdaySet(habit))
    /\ (ret.op = "isActiveOnDay" /\ ret.arg.kind # "number")
           => LET d == IF ret.arg.kind = "Date" THEN LocalDay(ret.arg.v) ELSE ret.arg.v
              IN  /\ isActiveOnDay(habit, Num(Weekday(d))) = ret.value
                  /\ isActiveOnDay(habit, Str(d)) = ret.value
                  /\ \A hour \in 0..(HoursPerDay - 1) :
                         isActiveOnDay(habit, DateObj(LocalMidnight(d) + hour)) = ret.value

\* west of UTC, a Monday/Wednesday/Friday habit asked about Sunday by its day
\* string answers no, and asked about Monday answers yes
C12_Witness ==
    /\ tz < 0
    /\ habit.daysOfWeek = Val(<<1, 3, 5>>)
    /\ ret.op = "isActiveOnDay"
    /\ ret.arg.kind = "string"
    /\ ret.arg.v = FirstDay
    /\ ret.value
    /\ ~isActiveOnDay(habit, Str(FirstDay + 6))

StrictTime(str) ==
    /\ Len(str) = 5
    /\ \A i \in {1, 2, 4, 5} : str[i] \in DigitChars
    /\ str[3] = ":"
    /\ Decimal(SubSeq(str, 1, 2)) \in 0..23
    /\ Decimal(SubSeq(str, 4, 5)) \in 0..59

\* C14: setNotificationTime(t) sets notificationTime to null when t is null or the
\* empty string, stores t when t is a strict HH:MM string, and for every other
\* input throws and leaves every field of the habit as it was.
C14_SetNotificationTime ==
    [][\A time \in TimeInputs :
          SetNotificationTime(time)
              => IF time.null \/ time.v = <<>>
                 THEN ~lastOp'.threw /\ habit' = [habit EXCEPT !.notificationTime = Null]
                 ELSE IF StrictTime(time.v)
                 THEN ~lastOp'.threw /\ habit' = [habit EXCEPT !.notificationTime = time]
                 ELSE lastOp'.threw /\ habit' = habit]_vars

\* "24:00" was refused, and the habit still holds "09:00"
C14_Witness ==
    /\ lastOp.op = "setNotificationTime"
    /\ lastOp.arg = Val(<<"2", "4", ":", "0", "0">>)
    /\ lastOp.threw
    /\ habit.notificationTime = Val(NineOClock)

\* C15: setDaysOfWeek(days) sets daysOfWeek to absent when days is null or empty;
\* when every element is an integer from 0 to 6 it stores the distinct elements
\* in ascending order; otherwise it throws and leaves daysOfWeek as it was.
C15_SetDaysOfWeek ==
    [][\A days \in DaysInputs :
          SetDaysOfWeek(days)
              => IF days.null \/ days.v = <<>>
                 THEN ~lastOp'.threw /\ habit' = [habit EXCEPT !.daysOfWeek = Null]
                 ELSE IF \A i \in 1..Len(days.v) : days.v[i] \in {Integer(n) : n \in 0..6}
                 THEN /\ ~lastOp'.threw
                      /\ habit' = [habit EXCEPT !.daysOfWeek =
                                       Val(SeqOf({days.v[i].n : i \in 1..Len(days.v)}))]
                 ELSE lastOp'.threw /\ habit' = habit]_vars

\* [6, 0, 6, 0] was stored as [0, 6]
C15_Witness ==
    /\ lastOp.op = "setDaysOfWeek"
    /\ lastOp.arg = Val(<<Integer(6), Integer(0), Integer(6), Integer(0)>>)
    /\ ~lastOp.threw
    /\ habit.daysOfWeek = Val(<<0, 6>>)

\* C16: fromJSON(toJSON(h)) equals h in every field, the id included, and toJSON
\* leaves h as it was.
C16_RoundTrip ==
    [][RoundTrip
          => /\ habit' = habit
             /\ ret'.value = habit
             /\ ret'.value.id = habit.id
             /\ \A f \in DOMAIN habit : ret'.value[f] = habit[f]]_vars

\* a habit with completions, a notification time, a schedule, notes and tags was
\* written and read back
C16_Witness ==
    /\ ret.op = "fromJSON"
    /\ ret.value = habit
    /\ ret.value.id = "habit_1"
    /\ Len(habit.completions) = 2
    /\ habit.notificationTime = Val(HalfPastEight)
    /\ habit.daysOfWeek = Val(<<1, 3>>)
    /\ habit.tags = <<"health">>

\* the three-letter abbreviation of a weekday
Abbreviation(d) ==
    CASE d = 0 -> "Sun" [] d = 1 -> "Mon" [] d = 2 -> "Tue" [] d = 3 -> "Wed"
      [] d = 4 -> "Thu" [] d = 5 -> "Fri" [] d = 6 -> "Sat"

AsStored(r) ==
    [r EXCEPT !.createdDate = IF @.null THEN Val(UtcDay(now)) ELSE @,
              !.completions = IF @.null THEN Val(<<>>) ELSE @,
              !.tags        = IF @.null THEN Val(<<>>) ELSE @]

\* the ids of a sequence of objects
IdsOf(rs) == {rs[i].id : i \in 1..Len(rs)}

\* the index holds the first object of the sequence with its id
FirstWithItsId(rs, i) == \A j \in 1..(i - 1) : rs[j].id # rs[i].id

\* the last object of the sequence with the id
LastWithId(rs, id) == rs[MaxOf({k \in 1..Len(rs) : rs[k].id = id})]

\* the existing habits in their order, a habit whose id is in the import overwritten
\* in place by the imported record, then the imported records with new ids in the
\* order of the import; where an id occurs more than once, the first existing
\* habit with it is the one overwritten, and the last imported record with it the
\* one that stays
Merged(existing, imported) ==
    LET newFirst == SeqOf({k \in 1..Len(imported) :
                              /\ imported[k].id \notin IdsOf(existing)
                              /\ FirstWithItsId(imported, k)})
    IN  [i \in 1..(Len(existing) + Len(newFirst)) |->
            IF i <= Len(existing)
            THEN IF existing[i].id \in IdsOf(imported) /\ FirstWithItsId(existing, i)
                 THEN LastWithId(imported, existing[i].id)
                 ELSE existing[i]
            ELSE LastWithId(imported, imported[newFirst[i - Len(existing)]].id)]

C19_MalformedDataDiscarded ==
    ret.op = "loadHabits"
        => /\ (\/ store.kind \in {"unparsable", "notArray", "arrayWithNull"}
               \/ \E i \in 1..Len(store.items) :
                      \/ store.items[i].id = Undefined
                      \/ store.items[i].name = Undefined
                      \/ store.items[i].createdDate.null
                      \/ store.items[i].completions.null)
                  => ret.value = <<>>
           /\ \A i \in 1..Len(ret.value) :
                  ret.value[i].id # Undefined /\ ret.value[i].name # Undefined

\* the ids of the habits loadHabits reads from the stored item
StoredIds == IdsOf(loadHabits(store))

\* lookup and delete by an id no stored habit has, and the handlers given an id no
\* habit of the collection has: null or false, and nothing changed
UnknownIdLeavesAll ==
    /\ \A habitId \in HabitIds \ StoredIds :
           /\ (ret'.op = "getHabitById" /\ GetHabitById(habitId))
                  => ret'.found.null /\ store' = store
           /\ (ret'.op = "deleteHabit" /\ DeleteHabit(habitId))
                  => ret'.value = FALSE /\ store' = store
    /\ \A habitId \in HabitIds \ IdsOf(habits) :
           /\ \A shouldComplete \in BOOLEAN :
                  HandleHabitComplete(habitId, shouldComplete)
                      => habits' = habits /\ store' = store
           /\ \A confirmed \in BOOLEAN :
                  HandleHabitDelete(habitId, confirmed) => habits' = habits /\ store' = store
           /\ \A formData \in Forms :
                  HandleEditHabitSubmit(habitId, formData)
                      => habits' = habits /\ store' = store

\* C20 (as stated): an unknown id in a lookup, an update or a delete gives null or
\* false and leaves the stored collection unchanged; the updates are the handlers
\* and the storage module's saveHabit.
C20_UnknownIdChangesNothing ==
    [][/\ UnknownIdLeavesAll
       /\ \A h \in SavedHabits :
              (h.id \notin StoredIds /\ ret'.op = "saveHabit" /\ SaveHabit(h))
                  => store' = store]_vars

\* C20 (amended): an unknown id in getHabitById, deleteHabit and the controller's
\* handlers gives null or false and changes nothing; saveHabit given a habit whose
\* id is not stored appends the habit to the stored collection and returns true.
C20_UnknownId ==
    [][/\ UnknownIdLeavesAll
       /\ \A h \in SavedHabits :
              (h.id \notin StoredIds /\ ret'.op = "saveHabit" /\ SaveHabit(h))
                  => /\ ret'.value = TRUE
                     /\ store'.kind = "array"
                     /\ store'.items =
                            [i \in 1..Len(loadHabits(store)) |-> toJSON(loadHabits(store)[i])]
                                \o <<toJSON(h)>>]_vars

\* deleteHabit("z") returned false with two habits stored, neither of them "z"
C20_Witness ==
    /\ ret.op = "deleteHabit"
    /\ ret.id = "z"
    /\ ret.value = FALSE
    /\ store = ArrayOf(<<Record("a", "Read"), Record("b", "Walk")>>)
    /\ Len(habits) = 2

---------------------------------------------------------------------------
(* Frame of the two mutators *)

\* every field of the habit but completions
OtherFields(h) ==
    <<h.id, h.name, h.createdDate, h.notificationTime, h.daysOfWeek, h.notes, h.tags>>

\* the calendar days an argument of the model can stand for
AllDays == (FirstDay - 1)..(FirstDay + MaxDay + 1)

\* C21: markCompleted(d) and markIncomplete(d) change only the membership of day
\* d: isCompletedOn(e) is unchanged for every other day e; id, name, createdDate,
\* notificationTime, daysOfWeek, notes and tags are unchanged; and
\* markIncomplete(d) on a day that is not completed leaves completions identical.
C21_OnlyThatDay ==
    [][LET date == lastOp'.arg
       IN  (MarkCompleted(date) \/ MarkIncomplete(date)) =>
               /\ \A e \in AllDays :
                      e # normalizeDate(date) =>
                          (isCompletedOn(habit', Str(e)) <=> isCompletedOn(habit, Str(e)))
               /\ OtherFields(habit') = OtherFields(habit)
               /\ (MarkIncomplete(date) /\ ~isCompletedOn(habit, date)) =>
                      habit'.completions = habit.completions]_vars

\* markIncomplete was called with a Date object and two days stay completed, the
\* second of them marked just before
C21_Witness ==
    /\ lastOp.op = "markIncomplete"
    /\ lastOp.arg.kind = "Date"
    /\ prevOp.op = "markCompleted"
    /\ Len(habit.completions) = 2
    /\ habit.completions[2] = normalizeDate(prevOp.arg)
    /\ ~isCompletedOn(habit, lastOp.arg)

---------------------------------------------------------------------------
(* The invariants of the collection *)

\* the sequence is strictly ascending: in order, and no element twice
Ascending(s) == \A i \in 1..Len(s) : \A j \in 1..Len(s) : i < j => s[i] < s[j]

\* C22: in every reachable state every habit of the collection, whether built by
\* the constructor, by fromJSON, by loadHabits or by importData from a completions
\* sequence the caller supplied, has its completions sorted ascending with no day
\* twice, also after any markCompleted or markIncomplete on it.
C22_CompletionsAscending ==
    \A i \in 1..Len(habits) : Ascending(habits[i].completions)

\* C23: in every reachable state every habit's daysOfWeek is either absent or
\* holds only integers from 0 to 6, each at most once, in ascending order: after
\* the add form, after setDaysOfWeek, after an edit, and after records are
\* loaded or imported.
C23_DaysOfWeekWellFormed ==
    \A i \in 1..Len(habits) :
        \/ habits[i].daysOfWeek.null
        \/ /\ \A k \in 1..Len(habits[i].daysOfWeek.v) : habits[i].daysOfWeek.v[k] \in 0..6
           /\ Ascending(habits[i].daysOfWeek.v)

\* C27: in every reachable state every habit's notificationTime is either null
\* or a valid 24-hour HH:MM time, hour 00-23 and minute 00-59: after the add form,
\* after an edit, and after records are loaded or imported.
C27_NotificationTimeValid ==
    \A i \in 1..Len(habits) :
        \/ habits[i].notificationTime.null
        \/ StrictTime(habits[i].notificationTime.v)

\* no two habits of the array have the same id
UniqueIds(hs) == \A i \in 1..Len(hs) : \A j \in 1..Len(hs) : i # j => hs[i].id # hs[j].id

\* C24: uniqueness by id: after any sequence of add, edit, delete, saveHabit,
\* deleteHabit and importData (replace or merge) from an empty store, no two habits
\* of the stored or of the in-memory collection have the same id.
C24_UniqueById ==
    /\ UniqueIds(habits)
    /\ UniqueIds(loadHabits(store))

---------------------------------------------------------------------------
(* Today *)

\* C25: "today" is the same local calendar day everywhere, at every clock time
\* and zone offset: the day the controller records when completion is toggled,
\* the day a new habit gets as createdDate, the day shouldNotifyForHabit tests for
\* completion and the day calculateStreak starts its walk from are that day, so
\* that a daily habit marked complete now has a streak of at least 1.
C25_SameToday ==
    /\ \A i \in 1..Len(habits) :
           /\ habits[i].createdDate = Today
           /\ Completed(habits[i]) \subseteq {Today}
    /\ ret.op = "shouldNotifyForHabit" => ret.today = Today
    /\ ret.op = "calculateStreak" =>
           /\ ret.today = Today
           /\ Completed(habits[FindIndex(habits, ret.id)]) # {} => ret.value >= 1

---------------------------------------------------------------------------
(* Failures *)

\* C26: every controller operation (add, edit, delete, toggle completion) that
\* ends in a reported failure, a validation error of setNotificationTime or
\* setDaysOfWeek or a failed save, is a no-op on the in-memory collection: every
\* habit has the fields it had before and no habit was added or removed.
C26_FailureIsNoOp ==
    [][(ret'.op # "none" /\ ret'.error) => habits' = habits]_vars

\* C28: whenever the notification permission is granted and some habit of the
\* collection has a notificationTime, the periodic check is running: the
\* controller's notificationCheckInterval is set, it is the id of a live interval
\* of the page, and the page has no other live interval.
C28_ChecksRunning ==
    (permission = "granted" /\ hasNotifications(habits))
        => /\ ~notificationCheckInterval.null
           /\ \E timer \in timers : timer.id = notificationCheckInterval.v
           /\ Cardinality(timers) <= 1

\* the reminders shown by the step are reminders of habits that are due on the
\* local day of the step: they have a notificationTime, are scheduled on that day
\* and are not completed on it
NewRemindersDue ==
    \A i \in (Len(reminders) + 1)..Len(reminders') :
        \E j \in 1..Len(habits') :
            /\ habits'[j].id = reminders'[i].id
            /\ ~habits'[j].notificationTime.null
            /\ isActiveOnDay(habits'[j], Str(LocalDay(now')))
            /\ ~isCompletedOn(habits'[j], Str(LocalDay(now')))

\* no habit has two reminders on one calendar day
OneReminderADay ==
    \A i, j \in 1..Len(reminders) : reminders[i] = reminders[j] => i = j

\* C29: for every habit and every calendar day showHabitReminder is called at most
\* once, whatever the interleaving of the interval's ticks, of the starts of the
\* notification checks and of the user's actions; and no reminder is shown for a
\* habit that is completed today, not scheduled today, or without a
\* notificationTime.
C29_OneDueReminder == []OneReminderADay /\ [][NewRemindersDue]_vars

\* C30: for every habit, whatever its schedule, its completions and today,
\* getStatistics() returns a longestStreak that is at least its currentStreak.
C30_LongestAtLeastCurrent ==
    ret.op = "getStatistics" => ret.value.longestStreak >= ret.value.currentStreak

====
